---- MODULE Spec2Model ----
(***************************************************************************)
(* Model of src/agent.py: the wind-farm site comparison agents.            *)
(*                                                                         *)
(* Two specifications share the variables:                                 *)
(*   SpecAnalyze  one call of analyze_satellite_images on an image list    *)
(*                drawn from bounded inputs, stepped through its client    *)
(*                construction, its per-image loop and its summary;        *)
(*   Spec         the agents calling the stubbed tool functions they       *)
(*                declare, any number of times, in any order and with any  *)
(*                arguments of bounded input sets.                         *)
(*                                                                         *)
(* The module declares the agents and hands them to the agents package,    *)
(* which is not part of the repository: the order in which that package    *)
(* runs the children, what it does with an exception that leaves a tool    *)
(* and how the final comparison is produced are not modelled.              *)
(*                                                                         *)
(* Text is modelled by TLA+ strings; "in", lower() and join() are computed *)
(* character by character.  Floats are fixed point (degrees * 10^4).       *)
(***************************************************************************)
EXTENDS Integers, Sequences, FiniteSets, TLC

VARIABLES
    SAMPLE_IMAGE_URLS,          \* module-level list, agent.py line 9
    SAMPLE_SOCIAL_MEDIA_POSTS,  \* module-level list, agent.py lines 10-13
    SAMPLE_REPORT,              \* module-level string, agent.py line 14
    pc,                \* position inside analyze_satellite_images ("idle": not called)
    image_urls,        \* its argument
    idx,               \* 1-based position of the for loop in image_urls
    analysis_results,  \* its local list
    ret,               \* its return value, NoValue until it returns
    exc,               \* the exception leaving it, NoException if none
    stream_log,        \* what the classification collaborator did, per call
    calls              \* every stubbed tool call made: agent, tool, arguments, output

globals == <<SAMPLE_IMAGE_URLS, SAMPLE_SOCIAL_MEDIA_POSTS, SAMPLE_REPORT>>
analysis == <<pc, image_urls, idx, analysis_results, ret, exc, stream_log>>
vars == <<globals, analysis, calls>>

\* Longest image list given to analyze_satellite_images in SpecAnalyze.
MaxImages == 3

NoValue == "NoValue"
NoException == "NoException"

----------------------------------------------------------------------------
(* Python str operations *)

UpperCase == <<"A","B","C","D","E","F","G","H","I","J","K","L","M",
               "N","O","P","Q","R","S","T","U","V","W","X","Y","Z">>
LowerCase == <<"a","b","c","d","e","f","g","h","i","j","k","l","m",
               "n","o","p","q","r","s","t","u","v","w","x","y","z">>
UpperSet == {UpperCase[i] : i \in 1..26}
LowerOf == [c \in UpperSet |-> LowerCase[CHOOSE i \in 1..26 : UpperCase[i] = c]]

\* str.lower() on one ASCII character
LowerChar(c) == IF c \in UpperSet THEN LowerOf[c] ELSE c

\* str.lower(), character by character (the string is split in halves to keep
\* the recursion shallow)
RECURSIVE lower(_)
lower(s) ==
    IF Len(s) <= 1 THEN LowerChar(s)
    ELSE LET half == Len(s) \div 2
         IN  lower(SubSeq(s, 1, half)) \o lower(SubSeq(s, half + 1, Len(s)))

\* sub in s
Contains(sub, s) ==
    \E i \in 1..(Len(s) - Len(sub) + 1) : SubSeq(s, i, i + Len(sub) - 1) = sub

\* sep.join(list)
RECURSIVE join(_, _)
join(sep, list) ==
    IF list = <<>> THEN ""
    ELSE IF Len(list) = 1 THEN list[1]
    ELSE list[1] \o sep \o join(sep, Tail(list))

----------------------------------------------------------------------------
(* analyze_satellite_images *)

\* The exception genai.Client(...) may raise (lines 50-54 are outside the try),
\* as class: str(e).
ClientErrors == {"DefaultCredentialsError: credentials not found"}

\* The try body ended: the stream yielded the chunks and nothing raised.
Yields(chunks) ==
    [chunks |-> chunks, raises |-> FALSE, class |-> "", is_exception |-> FALSE,
     message |-> "", str_raises |-> FALSE, str_error |-> ""]

\* The stream yielded the chunks and Part.from_uri or the stream then raised
\* e: its class, whether isinstance(e, Exception), and str(e) = message.
Raises(chunks, class, is_exception, message) ==
    [chunks |-> chunks, raises |-> TRUE, class |-> class, is_exception |-> is_exception,
     message |-> message, str_raises |-> FALSE, str_error |-> ""]

\* The same with an instance e of Exception whose __str__ raises: str(e) has
\* no value, str_error is the exception it raises, as class: str.
RaisesBadStr(chunks, class, str_error) ==
    [chunks |-> chunks, raises |-> TRUE, class |-> class, is_exception |-> TRUE,
     message |-> "", str_raises |-> TRUE, str_error |-> str_error]

\* What one pass of the try body can meet.
StreamOutcomes ==
    { Yields(<<"suitable terrain">>),
      Yields(<<"some moderate concerns">>),
      Yields(<<"some moderate concerns, unSUIT", "ABLE slope">>),
      Yields(<<"Handsome ridge">>),
      Yields(<<"rocky">>),
      Yields(<<>>),
      Raises(<<"suitable">>, "RuntimeError", TRUE, "quota exceeded"),
      Raises(<<>>, "ValueError", TRUE, "Moderate load, retry"),
      Raises(<<>>, "KeyboardInterrupt", FALSE, "stop"),
      Raises(<<>>, "BaseException", FALSE, "stop"),
      Raises(<<"suitable">>, "asyncio.CancelledError", FALSE, "stop"),
      RaisesBadStr(<<"rocky">>, "ClassifierError",
                   "AttributeError: 'NoneType' object has no attribute 'text'") }

\* Line 106, except Exception: the clause catches what the try body raised
\* exactly when it is an instance of Exception.
Caught(outcome) == outcome.raises /\ outcome.is_exception

\* An exception leaves the function from inside the loop: the try body
\* raised what line 106 does not catch, an instance of BaseException that is
\* not one of Exception; or line 106 caught e and the f-string of line 107,
\* which calls str(e), raised inside the handler.
Escapes(outcome) ==
    outcome.raises /\ (~outcome.is_exception \/ outcome.str_raises)

\* The exception that then leaves the function, as class: str.
Escaping(outcome) ==
    IF outcome.is_exception THEN outcome.str_error
    ELSE outcome.class \o ": " \o outcome.message

\* Image references given as input.
ImageRefs == {"gs://site_comparisons/beach_image.png", "gs://b/Terrain.png"}

RECURSIVE ListsUpTo(_, _)
ListsUpTo(S, n) ==
    IF n = 0 THEN {<<>>}
    ELSE LET shorter == ListsUpTo(S, n - 1)
         IN  shorter \cup {Append(l, x) : l \in {m \in shorter : Len(m) = n - 1}, x \in S}

\* response_text after the stream loop, lines 96-102
RECURSIVE ResponseText(_)
ResponseText(chunks) ==
    IF chunks = <<>> THEN "" ELSE chunks[1] \o ResponseText(Tail(chunks))

\* What one iteration of the for loop appends, lines 59-107, when the try
\* body ends or raises what line 106 catches
ImageEntry(image_url, outcome) ==
    IF Caught(outcome)
    THEN "Error analyzing image " \o image_url \o ": " \o outcome.message
    ELSE ResponseText(outcome.chunks)

\* Faulty variant: the moderate keywords are tested before the high ones.
ViabilityModerateFirst(summary) ==
    LET low == lower(summary)
    IN  IF Contains("some", low) \/ Contains("moderate", low) THEN "moderate"
        ELSE IF Contains("suitable", low) \/ Contains("terrain", low) THEN "high"
        ELSE "low"

\* Faulty variant: the elif branch is lost.
ViabilityNoModerate(summary) ==
    LET low == lower(summary)
    IN  IF Contains("suitable", low) \/ Contains("terrain", low) THEN "high" ELSE "low"

\* Faulty variant: the summary is not lowered before the keyword tests.
ViabilityCaseSensitive(summary) ==
    IF Contains("suitable", summary) \/ Contains("terrain", summary) THEN "high"
    ELSE IF Contains("some", summary) \/ Contains("moderate", summary) THEN "moderate"
    ELSE "low"

\* Lines 113-118
Viability(summary) ==
    LET low == lower(summary)
    IN  IF Contains("suitable", low) \/ Contains("terrain", low) THEN "high"
        ELSE IF Contains("some", low) \/ Contains("moderate", low) THEN "moderate"
        ELSE "low"

\* Lines 109-120
Summarise(results) ==
    LET summary == join("\n", results)
    IN  [viability |-> Viability(summary), analysis |-> summary]

\* Lines 50-56: the client is constructed, the list is created.
CreateClient ==
    /\ pc = "client"
    /\ pc' = "loop"
    /\ analysis_results' = <<>>
    /\ idx' = 1
    /\ UNCHANGED <<image_urls, ret, exc, stream_log, globals, calls>>

\* Lines 50-54: the constructor raises; nothing in the function catches it.
CreateClientRaises ==
    /\ pc = "client"
    /\ \E e \in ClientErrors : exc' = e
    /\ pc' = "raised"
    /\ UNCHANGED <<image_urls, idx, analysis_results, ret, stream_log, globals, calls>>

\* Lines 58-107: one iteration of the for loop.  The try body ends, or raises
\* an exception that line 106 catches and line 107 formats: one entry is
\* appended and the loop goes on.  It raises one that line 106 does not
\* catch, or one whose str() raises at line 107: the exception leaves the
\* function from inside the loop and nothing is appended.
AnalyzeImage ==
    /\ pc = "loop"
    /\ idx <= Len(image_urls)
    /\ \E outcome \in StreamOutcomes :
          /\ stream_log' = Append(stream_log, outcome)
          /\ IF Escapes(outcome)
             THEN /\ exc' = Escaping(outcome)
                  /\ pc' = "raised"
                  /\ UNCHANGED <<analysis_results, idx>>
             ELSE /\ analysis_results' =
                        Append(analysis_results, ImageEntry(image_urls[idx], outcome))
                  /\ idx' = idx + 1
                  /\ UNCHANGED <<pc, exc>>
    /\ UNCHANGED <<image_urls, ret, globals, calls>>

\* Lines 109-120: the loop is over, the summary is classified and returned.
ReturnSummary ==
    /\ pc = "loop"
    /\ idx > Len(image_urls)
    /\ ret' = Summarise(analysis_results)
    /\ pc' = "done"
    /\ UNCHANGED <<image_urls, idx, analysis_results, exc, stream_log, globals, calls>>

InitGlobals ==
    /\ SAMPLE_IMAGE_URLS = <<"gs://site_comparisons/beach_image.png">>
    /\ SAMPLE_SOCIAL_MEDIA_POSTS =
          << [sentiment |-> "negative", text |-> "Concerned about wind farm noise"],
             [sentiment |-> "positive", text |-> "Renewable energy is crucial!"] >>
    /\ SAMPLE_REPORT = "The environmental impact is minimal..."

\* analyze_satellite_images has just been called with image_urls.
InitAnalyze ==
    /\ InitGlobals
    /\ calls = {}
    /\ image_urls \in ListsUpTo(ImageRefs, MaxImages)
    /\ pc = "client"
    /\ idx = 1
    /\ analysis_results = <<>>
    /\ ret = NoValue
    /\ exc = NoException
    /\ stream_log = <<>>

NextAnalyze ==
    \/ CreateClient
    \/ CreateClientRaises
    \/ AnalyzeImage
    \/ ReturnSummary

SpecAnalyze == InitAnalyze /\ [][NextAnalyze]_vars

----------------------------------------------------------------------------
(* The other tool functions (tool_context is unused by all of them) *)

get_lat_long(location) == [latitude |-> 340522, longitude |-> -1182437]

get_earth_engine_images(latitude, longitude) == [image_urls |-> SAMPLE_IMAGE_URLS]

\* Faulty variant: the first post is lost.
search_social_media_drops_post(location) == [posts |-> Tail(SAMPLE_SOCIAL_MEDIA_POSTS)]

search_social_media(location) == [posts |-> SAMPLE_SOCIAL_MEDIA_POSTS]

check_lawsuits(location) == [lawsuits_found |-> FALSE]

check_landownership(latitude, longitude) ==
    [ownership |-> "private", acquisition_difficulty |-> "high"]

analyze_environmental_report(report) ==
    [key_findings |-> <<"No endangered species", "Low water usage">>]

find_nearest_electrical_hub(latitude, longitude) ==
    [distance |-> 5, estimated_cost |-> 50000]

----------------------------------------------------------------------------
(* Agents *)

imagery_agent ==
    [name |-> "satellite_imagery_agent",
     tools |-> <<"get_lat_long", "get_earth_engine_images", "analyze_satellite_images">>]

sentiment_agent ==
    [name |-> "community_sentiment_agent",
     tools |-> <<"search_social_media", "check_lawsuits">>]

land_agent ==
    [name |-> "land_ownership_agent", tools |-> <<"check_landownership">>]

impact_agent ==
    [name |-> "environmental_impact_agent", tools |-> <<"analyze_environmental_report">>]

grid_agent ==
    [name |-> "electrical_grid_agent", tools |-> <<"find_nearest_electrical_hub">>]

control_agent ==
    [name |-> "control_agent",
     flow |-> "sequential",
     children |-> <<imagery_agent, sentiment_agent, land_agent, impact_agent, grid_agent>>]

\* The agents that are given tools: the children of the control agent, whose
\* own tools list is empty (line 219).
Agents == {control_agent.children[i] : i \in 1..Len(control_agent.children)}

\* The tool functions that return a constant at once; analyze_satellite_images
\* is stepped in SpecAnalyze.
StubTools ==
    {"get_lat_long", "get_earth_engine_images", "search_social_media", "check_lawsuits",
     "check_landownership", "analyze_environmental_report", "find_nearest_electrical_hub"}

\* Inputs of the calls: locations, coordinates and report texts.
Locations == {"Site A", "Site B"}
Coordinates == {<<340522, -1182437>>, <<515074, -1278>>}
Reports == {"The environmental impact is minimal...", ""}

\* The argument lists a tool may be called with, by its signature.
ToolInputs(t) ==
    CASE t \in {"get_lat_long", "search_social_media", "check_lawsuits"} ->
             {<<l>> : l \in Locations}
      [] t \in {"get_earth_engine_images", "check_landownership",
                "find_nearest_electrical_hub"} -> Coordinates
      [] t = "analyze_environmental_report" -> {<<r>> : r \in Reports}

\* The call of a tool that returns at once.
ToolOutput(t, args) ==
    CASE t = "get_lat_long" -> get_lat_long(args[1])
      [] t = "get_earth_engine_images" -> get_earth_engine_images(args[1], args[2])
      [] t = "search_social_media" -> search_social_media(args[1])
      [] t = "check_lawsuits" -> check_lawsuits(args[1])
      [] t = "check_landownership" -> check_landownership(args[1], args[2])
      [] t = "analyze_environmental_report" -> analyze_environmental_report(args[1])
      [] t = "find_nearest_electrical_hub" -> find_nearest_electrical_hub(args[1], args[2])

\* An agent calls one of the stubbed tools of its tools list: the function
\* returns its output and assigns no module-level name.
CallTool ==
    \E a \in Agents : \E i \in 1..Len(a.tools) :
        /\ a.tools[i] \in StubTools
        /\ \E args \in ToolInputs(a.tools[i]) :
              calls' = calls \cup {[agent |-> a.name, tool |-> a.tools[i], args |-> args,
                                    out |-> ToolOutput(a.tools[i], args)]}
        /\ UNCHANGED <<globals, analysis>>

Init ==
    /\ InitGlobals
    /\ calls = {}
    /\ pc = "idle"
    /\ image_urls = <<>>
    /\ idx = 1
    /\ analysis_results = <<>>
    /\ ret = NoValue
    /\ exc = NoException
    /\ stream_log = <<>>

Next == CallTool

Spec == Init /\ [][Next]_vars

----------------------------------------------------------------------------
(* Properties of analyze_satellite_images, checked under SpecAnalyze *)

HighKeywords == {"suitable", "terrain"}
ModerateKeywords == {"some", "moderate"}

\* Some entry of the list contains, letter case ignored, a keyword of kws.
EntryHas(kws, entries) ==
    \E i \in 1..Len(entries) : \E k \in kws : Contains(k, lower(entries[i]))

\* C1: when the merged text contains "suitable" or "terrain", the returned
\* viability is "high", whatever else the text contains and in whatever order.
C1_HighKeywordWins ==
    pc = "done" =>
        ((Contains("suitable", ret.analysis) \/ Contains("terrain", ret.analysis))
            => ret.viability = "high")

\* A moderate text comes first, a high text second, and the result is high.
C1_Witness ==
    /\ pc = "done"
    /\ Len(analysis_results) = 2
    /\ analysis_results[1] = "some moderate concerns"
    /\ analysis_results[2] = "suitable terrain"
    /\ ret.viability = "high"

\* The entry recorded for image i when its call ended or failed.
C2_Entry(i) ==
    IF stream_log[i].raises
    THEN "Error analyzing image " \o image_urls[i] \o ": " \o stream_log[i].message
    ELSE ResponseText(stream_log[i].chunks)

\* Every classification failure so far raised an instance of Exception.
FailuresAreExceptions ==
    \A i \in 1..Len(stream_log) : stream_log[i].raises => stream_log[i].is_exception

\* C2: when every classification failure is an instance of Exception, there
\* is during and after the loop one entry per image visited, in input order:
\* the classifier's text where the call succeeded, the inline error string
\* naming the image where it failed; the loop ends with N entries, and no
\* classification failure leaves the function.
C2_FailuresAbsorbed ==
    FailuresAreExceptions =>
        /\ pc \in {"loop", "done"} =>
              /\ Len(analysis_results) = idx - 1
              /\ Len(stream_log) = idx - 1
              /\ \A i \in 1..Len(analysis_results) : analysis_results[i] = C2_Entry(i)
        /\ pc = "done" => Len(analysis_results) = Len(image_urls)
        /\ pc = "raised" => stream_log = <<>>

\* C3: analyze_satellite_images never raises, and called with the empty list
\* it returns viability "low" and an empty analysis text.
C3_NeverRaises ==
    /\ pc # "raised"
    /\ (pc = "done" /\ image_urls = <<>>) => ret = [viability |-> "low", analysis |-> ""]

\* C4 as stated: text containing "suitable terrain" is high and text
\* containing "some moderate concerns" is moderate.
C4_Original ==
    pc = "done" =>
        /\ Contains("suitable terrain", ret.analysis) => ret.viability = "high"
        /\ Contains("some moderate concerns", ret.analysis) => ret.viability = "moderate"

\* C4 amended: text containing "suitable terrain" is high; text containing
\* "some moderate concerns" is moderate when it contains no high keyword
\* (letter case ignored), and high when it does.
C4_PhraseClassification ==
    pc = "done" =>
        /\ Contains("suitable terrain", ret.analysis) => ret.viability = "high"
        /\ Contains("some moderate concerns", ret.analysis) =>
              ret.viability = IF \E k \in HighKeywords : Contains(k, lower(ret.analysis))
                              THEN "high" ELSE "moderate"

\* One image whose text is "some moderate concerns" was classified moderate.
C4_Witness ==
    /\ pc = "done"
    /\ ret.analysis = "some moderate concerns"
    /\ ret.viability = "moderate"

\* The keywords of an all-failed batch are those of its image references and
\* of its exception messages.
NoKeywordInErrors ==
    \A i \in 1..Len(stream_log) : \A k \in HighKeywords \cup ModerateKeywords :
        /\ ~Contains(k, lower(image_urls[i]))
        /\ ~Contains(k, lower(stream_log[i].message))

\* C10: the viability is that of all N entries, error entries included,
\* letter case ignored; a batch in which every image failed is "low" exactly
\* when no image reference and no exception message holds a keyword.
C10_ErrorEntriesAreClassified ==
    pc = "done" =>
        /\ ret.viability = IF EntryHas(HighKeywords, analysis_results) THEN "high"
                           ELSE IF EntryHas(ModerateKeywords, analysis_results) THEN "moderate"
                           ELSE "low"
        /\ (\A i \in 1..Len(stream_log) : stream_log[i].raises) =>
              (ret.viability = "low" <=> NoKeywordInErrors)

\* Every image failed and the batch is high, from the keyword in a reference.
C10_Witness ==
    /\ pc = "done"
    /\ Len(image_urls) = 2
    /\ \A i \in 1..2 : stream_log[i].raises /\ stream_log[i].message = "quota exceeded"
    /\ ret.viability = "high"

----------------------------------------------------------------------------
(* Properties of the stubbed tools, checked under Spec *)

SentimentCount(label, posts) ==
    Cardinality({i \in 1..Len(posts) : posts[i].sentiment = label})

\* What search_social_media returned, over all its calls.
SentimentReports == {c.out : c \in {d \in calls : d.tool = "search_social_media"}}

\* C9 as stated: the Sentiment Assessor reports a tally of counts per label,
\* 1 negative and 1 positive for the sample posts.
C9_Original ==
    \A r \in SentimentReports :
        /\ "tally" \in DOMAIN r
        /\ r.tally = [negative |-> 1, positive |-> 1]

\* C9 amended: the Sentiment Assessor returns the posts alone, unchanged, in
\* order and with none lost, and no tally; counting the returned posts per
\* label gives 1 negative and 1 positive, which sum to the number of posts.
C9_PostsPassedThrough ==
    \A r \in SentimentReports :
        /\ DOMAIN r = {"posts"}
        /\ r.posts =
              << [sentiment |-> "negative", text |-> "Concerned about wind farm noise"],
                 [sentiment |-> "positive", text |-> "Renewable energy is crucial!"] >>
        /\ SentimentCount("negative", r.posts) = 1
        /\ SentimentCount("positive", r.posts) = 1
        /\ SentimentCount("negative", r.posts) + SentimentCount("positive", r.posts)
              = Len(r.posts)

\* The sentiment agent has searched the posts of both sites.
C9_Witness ==
    \A l \in Locations :
        \E c \in calls : c.tool = "search_social_media" /\ c.args = <<l>>

====
